---- MODULE Spec2Model ----
(***************************************************************************)
(* Model of the two plotting routines of the repository:                   *)
(*   draw_zigzag      (nils/conventional_propulsive_motor/draw_zigzag.py)  *)
(*   plot_lattice_hex (nils/conventional_propulsive_motor/                 *)
(*                     plot_lattice_hex.py)                                *)
(*                                                                         *)
(* Numbers.  The routines compute in binary floating point (Python float / *)
(* numpy float64): every +, -, *, / and hypot rounds its exact result to   *)
(* the nearest representable number, ties to even.  The model keeps that   *)
(* arithmetic and shrinks only the format: a float is an integer count of  *)
(* units of 2^-FracBits (the smallest positive number of the format) and   *)
(* carries at most Precision significant bits.  Overflow to infinity does  *)
(* not occur for the inputs enumerated; the two divisions by zero that the *)
(* code can perform are modelled by their outcome (exception or inf/nan).  *)
(*                                                                         *)
(* Drawing surface.  ax is the sequence of ax.plot calls made so far.  A   *)
(* zigzag stroke is recorded with its point sequence; the strokes of the   *)
(* lattice are recorded by what determines them (radius, strut count,      *)
(* boundary angle), their cos/sin samples are not expanded.                *)
(***************************************************************************)
EXTENDS Integers, Sequences, FiniteSets, TLC

FracBits == 8
Precision == 5

RECURSIVE Pow2(_)
Pow2(n) == IF n = 0 THEN 1 ELSE 2 * Pow2(n - 1)

\* 1.0 in units.
One == Pow2(FracBits)

Abs(x) == IF x < 0 THEN -x ELSE x

Max(a, b) == IF a >= b THEN a ELSE b

RECURSIVE BitLen(_)
BitLen(n) == IF n = 0 THEN 0 ELSE 1 + BitLen(n \div 2)

\* Spacing of the floats around magnitude q (q a whole number of units).
Ulp(q) == IF BitLen(q) > Precision THEN Pow2(BitLen(q) - Precision) ELSE 1

\* The float nearest to the exact quotient n/d (d > 0), ties to even.
RoundQ(n, d) ==
    LET a   == Abs(n)
        u   == Ulp(a \div d)
        m   == a \div (d * u)
        rem == a % (d * u)
        up  == (2 * rem > d * u) \/ (2 * rem = d * u /\ m % 2 = 1)
        r   == (IF up THEN m + 1 ELSE m) * u
    IN  IF n < 0 THEN -r ELSE r

FAdd(a, b) == RoundQ(a + b, 1)
FSub(a, b) == RoundQ(a - b, 1)
FMul(a, b) == RoundQ(a * b, One)
\* b # 0
FDiv(a, b) == IF b < 0 THEN RoundQ(-(a * One), -b) ELSE RoundQ(a * One, b)

\* A decimal literal n/d of the source text, as the float it denotes.
Dec(n, d) == RoundQ(n * One, d)
\* An integer operand converted to float.
IntF(i) == RoundQ(i * One, 1)
\* int(np.floor(x)) of a finite float x.
Floor(x) == x \div One

RECURSIVE ISqrtFrom(_, _)
ISqrtFrom(n, q) == IF (q + 1) * (q + 1) > n THEN q ELSE ISqrtFrom(n, q + 1)

\* np.hypot(a, b): the float nearest to sqrt(a^2 + b^2).
Hypot(a, b) ==
    LET n  == a * a + b * b
        q  == ISqrtFrom(n, Max(Abs(a), Abs(b)))
        u  == Ulp(q)
        m  == q \div u
        lo == m * u
        mid2 == 2 * lo + u
        up == (4 * n > mid2 * mid2) \/ (4 * n = mid2 * mid2 /\ m % 2 = 1)
    IN  IF up THEN lo + u ELSE lo

(***************************************************************************)
(* State.                                                                  *)
(*   pc       "idle" before the call, "loop" inside plot_lattice_hex's for *)
(*            loop, "returned" / "raised" after the call                   *)
(*   fn       the routine called                                           *)
(*   args     its arguments                                                *)
(*   err      the exception a raised call ended in                         *)
(*   ax       the drawing surface: the ax.plot calls made, in order        *)
(*   before   the surface as the caller supplied it                        *)
(*   r_values, i   locals of plot_lattice_hex                              *)
(***************************************************************************)
VARIABLES pc, fn, args, err, ax, before, r_values, i

vars == <<pc, fn, args, err, ax, before, r_values, i>>

\* An argument left at its default None is <<>>, a given number v is <<v>>.
None == <<>>
Some(v) == <<v>>
IsNone(o) == o = <<>>
Val(o) == o[1]

(***************************************************************************)
(* draw_zigzag(ax, start, end, pitch, fraction_zigzag, amplitude)          *)
(***************************************************************************)
x_start(a) == a.start[1]
y_start(a) == a.start[2]
x_end(a) == a.end[1]
y_end(a) == a.end[2]

dx(a) == FSub(x_end(a), x_start(a))
dy(a) == FSub(y_end(a), y_start(a))
L_total(a) == Hypot(dx(a), dy(a))

straight_frac(a) == FDiv(FSub(One, a.fraction_zigzag), 2 * One)

p_zig_start(a) ==
    << FAdd(x_start(a), FMul(straight_frac(a), dx(a))),
       FAdd(y_start(a), FMul(straight_frac(a), dy(a))) >>

p_zig_end(a) ==
    << FAdd(x_start(a), FMul(FSub(One, straight_frac(a)), dx(a))),
       FAdd(y_start(a), FMul(FSub(One, straight_frac(a)), dy(a))) >>

L_zig(a) ==
    Hypot(FSub(p_zig_end(a)[1], p_zig_start(a)[1]),
          FSub(p_zig_end(a)[2], p_zig_start(a)[2]))

\* int(np.floor(L_zig / pitch)), raised to 1; pitch # 0.
n_half(a) ==
    LET n == Floor(FDiv(L_zig(a), a.pitch))
    IN  IF n < 1 THEN 1 ELSE n

num_points_zig(a) == n_half(a) + 1

\* np.linspace(0, 1, num), num >= 2: k * (1/(num-1)) for k = 0..num-1, the
\* last sample then set to the stop value itself.
linspace01(num) ==
    [k \in 1..num |->
        IF k = num THEN One
        ELSE FMul(IntF(k - 1), FDiv(One, IntF(num - 1)))]

\* Point at parameter t on the segment from p to q: p + t * (q - p).
lerp(p, q, t) ==
    << FAdd(p[1], FMul(t, FSub(q[1], p[1]))),
       FAdd(p[2], FMul(t, FSub(q[2], p[2]))) >>

\* Baseline points of the zigzag region.
zig_base(a) ==
    LET t == linspace01(num_points_zig(a))
    IN  [k \in 1..num_points_zig(a) |-> lerp(p_zig_start(a), p_zig_end(a), t[k])]

perp_x(a) == FDiv(-dy(a), L_total(a))
perp_y(a) == FDiv(dx(a), L_total(a))

\* Mutant of sign: the sign taken from the index's own parity, so that every
\* displaced point gets the same sign.
sign_by_parity(j) == IF j % 2 = 0 THEN 1 ELSE -1

\* Sign of the displacement of the point of (0-based) index j.
sign(j) == IF (j \div 2) % 2 = 0 THEN 1 ELSE -1

\* Whether the point of (0-based) index j is displaced.
displaced(j) == j % 2 = 1

\* x_zig, y_zig after the displacement loop.
zig(a) ==
    [k \in 1..num_points_zig(a) |->
        IF displaced(k - 1)
        THEN << FAdd(zig_base(a)[k][1], FMul(a.amplitude * sign(k - 1), perp_x(a))),
                FAdd(zig_base(a)[k][2], FMul(a.amplitude * sign(k - 1), perp_y(a))) >>
        ELSE zig_base(a)[k]]

num_straight == 5

left(a) ==
    LET t == linspace01(num_straight)
    IN  [k \in 1..num_straight |-> lerp(a.start, p_zig_start(a), t[k])]

right(a) ==
    LET t == linspace01(num_straight)
    IN  [k \in 1..num_straight |-> lerp(p_zig_end(a), a.end, t[k])]

\* x_full, y_full: left[:-1], zig, right[1:].
full(a) ==
    SubSeq(left(a), 1, num_straight - 1) \o zig(a) \o SubSeq(right(a), 2, num_straight)

Starts == { <<0, 0>>, <<Dec(1, 10), 0>>, <<One, 0>> }
Ends == { <<0, 0>>, <<One, 0>>, <<Dec(7, 10), Dec(1, 10)>>, <<0, One>>,
          <<-Dec(3, 10), Dec(7, 10)>> }
Pitches == { -Dec(25, 100), 0, Dec(25, 100), Dec(5, 10) }
Fractions == { 0, Dec(3, 10), Dec(5, 10), One }
Amplitudes == { 0, Dec(5, 100) }

ZigzagArgs ==
    [start : Starts, end : Ends, pitch : Pitches,
     fraction_zigzag : Fractions, amplitude : Amplitudes]

\* What int() raises for a float that is not finite.
NanToInt == "ValueError: cannot convert float NaN to integer"
InfToInt == "OverflowError: cannot convert float infinity to integer"

\* L_zig / pitch divides by zero.
pitch_is_zero(a) == a.pitch = 0

\* if L_total == 0: return
zero_length(a) == L_total(a) = 0

\* Mutant of draw_zigzag: the zero-length return is missing, so that the
\* stroke (of nan coordinates, here left empty) is plotted.
draw_zigzag_unguarded(a) ==
    /\ pc = "idle"
    /\ fn' = "draw_zigzag"
    /\ args' = a
    /\ UNCHANGED <<before, r_values, i>>
    /\ IF pitch_is_zero(a)
       THEN /\ pc' = "raised"
            /\ err' = IF L_zig(a) = 0 THEN NanToInt ELSE InfToInt
            /\ ax' = ax
       ELSE /\ pc' = "returned"
            /\ err' = "none"
            /\ ax' = Append(ax, [kind |-> "zigzag",
                                 pts |-> IF zero_length(a) THEN <<>> ELSE full(a)])

draw_zigzag(a) ==
    /\ pc = "idle"
    /\ fn' = "draw_zigzag"
    /\ args' = a
    /\ UNCHANGED <<before, r_values, i>>
    /\ IF pitch_is_zero(a)
       THEN \* L_zig / 0 is inf or nan, which int() refuses.
            /\ pc' = "raised"
            /\ err' = IF L_zig(a) = 0 THEN NanToInt ELSE InfToInt
            /\ ax' = ax
       ELSE IF zero_length(a)
       THEN /\ pc' = "returned"
            /\ err' = "none"
            /\ ax' = ax
       ELSE /\ pc' = "returned"
            /\ err' = "none"
            /\ ax' = Append(ax, [kind |-> "zigzag", pts |-> full(a)])

(***************************************************************************)
(* plot_lattice_hex(fig, ax, r_in, r_out, h, w, d, angle_start, angle_end) *)
(* The arguments are Python scalars, as the defaults of the signature are. *)
(* fig and alpha are never read by the computation and are left out; d is  *)
(* never read either and is kept to show it.                               *)
(***************************************************************************)
\* int(np.floor((r_out - r_in) / h)); h # 0.
num_rings(a) == Floor(FDiv(FSub(a.r_out, Val(a.r_in)), a.h))

\* r_in + np.arange(num_rings + 1) * h (empty when num_rings + 1 <= 0).
arange_radii(a) ==
    [k \in 1..(num_rings(a) + 1) |-> FAdd(Val(a.r_in), FMul(IntF(k - 1), a.h))]

\* r_values after the clamp; arange_radii(a) is not empty.
clamped_radii(a) ==
    LET r == arange_radii(a)
    IN  IF r[Len(r)] < a.r_out THEN Append(r, a.r_out) ELSE r

r_mid(r1, r2) == FMul(Dec(5, 10), FAdd(r1, r2))

sector(a) == FSub(a.angle_end, a.angle_start)

\* Mutant of dtheta_est: the arc width multiplied by the radius.
dtheta_est_times(a, r1, r2) == FMul(a.w, r_mid(r1, r2))

\* w / r_mid, r_mid # 0.
dtheta_est(a, r1, r2) == FDiv(a.w, r_mid(r1, r2))

\* int(np.floor((angle_end - angle_start) / dtheta_est)), dtheta_est a nonzero
\* finite number.
n_arc(a, r1, r2) == Floor(FDiv(sector(a), dtheta_est(a, r1, r2)))

DivByZero == "ZeroDivisionError: float division by zero"
NegativeSamples == "ValueError: Number of samples must be non-negative"
InvalidRange == "ValueError: angle_start must be less than angle_end"
NoneOperand == "TypeError: unsupported operand type(s)"
EmptyIndex == "IndexError: index -1 is out of bounds"

\* How the computation of n_arc, dtheta and angles ends for one ring:
\* "ok", or the exception raised.
ring_outcome(a, r1, r2) ==
    IF r_mid(r1, r2) = 0
    THEN \* w / 0.0 is nan (w = 0) or +-inf on a numpy float; the sector divided
         \* by it is nan or 0.
         IF a.w = 0 THEN NanToInt ELSE DivByZero
    ELSE IF dtheta_est(a, r1, r2) = 0
    THEN InfToInt                 \* sector / 0.0 is inf on a numpy float
    ELSE IF n_arc(a, r1, r2) = 0
    THEN DivByZero                \* dtheta = sector / n_arc
    ELSE IF n_arc(a, r1, r2) < 0
    THEN NegativeSamples          \* np.linspace(..., n_arc, ...)
    ELSE "ok"

arc(r) == [kind |-> "arc", r |-> r]
struts(r1, r2, n) == [kind |-> "struts", r1 |-> r1, r2 |-> r2, n |-> n]
radius(r1, r2, angle) == [kind |-> "radius", r1 |-> r1, r2 |-> r2, angle |-> angle]

RIns == { None, Some(Dec(3, 10)), Some(One) }
ROuts == { Dec(85, 100), One, 2 * One }
Hs == { -Dec(3, 10), 0, Dec(3, 10), Dec(55, 100) }
Ws == { -One, 0, Dec(5, 10), 8 * One }
Ds == { None, Some(Dec(1, 10)) }
\* <<angle_start, angle_end>>; the first is the signature's default, 0 to 2 pi.
Sectors == { <<0, Dec(6283, 1000)>>, <<0, One>>, <<One, Dec(5, 10)>>, <<One, One>> }

LatticeArgs ==
    { [r_in |-> ri, r_out |-> ro, h |-> hh, w |-> ww, d |-> dd,
       angle_start |-> s[1], angle_end |-> s[2]] :
      ri \in RIns, ro \in ROuts, hh \in Hs, ww \in Ws, dd \in Ds, s \in Sectors }

\* Mutant of invalid_range: an empty sector (angle_start = angle_end) passes.
invalid_range_strict(a) == a.angle_start > a.angle_end

\* if angle_start >= angle_end: raise ValueError
invalid_range(a) == a.angle_start >= a.angle_end

\* The call, up to the entry of the for loop.
plot_lattice_hex(a) ==
    /\ pc = "idle"
    /\ fn' = "plot_lattice_hex"
    /\ args' = a
    /\ i' = 0
    /\ UNCHANGED <<ax, before>>
    /\ IF invalid_range(a)
       THEN pc' = "raised" /\ err' = InvalidRange /\ r_values' = <<>>
       ELSE IF IsNone(a.r_in)
       THEN pc' = "raised" /\ err' = NoneOperand /\ r_values' = <<>>
       ELSE IF a.h = 0
       THEN pc' = "raised" /\ err' = DivByZero /\ r_values' = <<>>
       ELSE IF num_rings(a) + 1 <= 0
       THEN \* r_values[-1] of an empty array
            pc' = "raised" /\ err' = EmptyIndex /\ r_values' = <<>>
       ELSE pc' = "loop" /\ err' = "none" /\ r_values' = clamped_radii(a)

\* One iteration of the for loop, for the ring between r_values[i] and
\* r_values[i + 1] (0-based).
ring_body ==
    /\ pc = "loop"
    /\ i < Len(r_values) - 1
    /\ LET r1 == r_values[i + 1]
           r2 == r_values[i + 2]
           arcs == ax \o << arc(r1), arc(r2) >>
       IN  IF ring_outcome(args, r1, r2) = "ok"
           THEN /\ ax' = arcs \o << struts(r1, r2, n_arc(args, r1, r2)),
                                    radius(r1, r2, args.angle_start),
                                    radius(r1, r2, args.angle_end) >>
                /\ i' = i + 1
                /\ UNCHANGED <<pc, err>>
           ELSE /\ ax' = arcs
                /\ pc' = "raised"
                /\ err' = ring_outcome(args, r1, r2)
                /\ i' = i
    /\ UNCHANGED <<fn, args, before, r_values>>

\* Loop exit and return fig, ax.
return_fig_ax ==
    /\ pc = "loop"
    /\ i >= Len(r_values) - 1
    /\ pc' = "returned"
    /\ UNCHANGED <<fn, args, err, ax, before, r_values, i>>

Init ==
    /\ pc = "idle"
    /\ fn = "none"
    /\ args = <<>>
    /\ err = "none"
    /\ ax \in { <<>>, <<[kind |-> "marker", pts |-> <<<<0, 0>>>>]>> }
    /\ before = ax
    /\ r_values = <<>>
    /\ i = 0

Next ==
    \/ \E a \in ZigzagArgs : draw_zigzag(a)
    \/ \E a \in LatticeArgs : plot_lattice_hex(a)
    \/ ring_body
    \/ return_fig_ax

Spec == Init /\ [][Next]_vars

(***************************************************************************)
(* Properties of draw_zigzag.                                              *)
(***************************************************************************)
ZigCalled == fn = "draw_zigzag" /\ pc # "idle"

\* The call returned after its single ax.plot call.
ZigPlotted == ZigCalled /\ pc = "returned" /\ Len(ax) = Len(before) + 1

\* The point sequence of that ax.plot call.
Path == ax[Len(ax)].pts

\* start # end, pitch > 0, fraction_zigzag in [0, 1].
ValidZig ==
    /\ args.start # args.end
    /\ args.pitch > 0
    /\ 0 <= args.fraction_zigzag /\ args.fraction_zigzag <= One

Count(s, p) == Cardinality({k \in DOMAIN s : s[k] = p})

\* p lies on the straight line through start and end (exact arithmetic).
OnLine(p) ==
    (p[1] - args.start[1]) * (args.end[2] - args.start[2])
        = (p[2] - args.start[2]) * (args.end[1] - args.start[1])

AxisParallel == args.start[1] = args.end[1] \/ args.start[2] = args.end[2]

\* C1: for start # end, pitch > 0 and fraction_zigzag in [0, 1], the plotted
\* point sequence begins with start and ends with end, exactly.
C1_EndpointsExact ==
    ZigCalled /\ ValidZig =>
        /\ ZigPlotted
        /\ Path[1] = args.start
        /\ Path[Len(Path)] = args.end

\* C5: a call with start # end and pitch <= 0 ends in an error, with nothing
\* drawn on the surface.
C5_NonPositivePitchRaises ==
    ZigCalled /\ args.start # args.end /\ args.pitch <= 0 =>
        pc = "raised" /\ ax = before

\* C6: a call with start = end and pitch > 0 returns normally, raises nothing
\* and leaves the surface as it was.
C6_ZeroLengthNoOp ==
    ZigCalled /\ args.start = args.end /\ args.pitch > 0 =>
        pc = "returned" /\ err = "none" /\ ax = before

C6_Witness ==
    /\ ZigCalled /\ args.start = args.end /\ args.pitch > 0
    /\ args.amplitude # 0 /\ args.fraction_zigzag = One
    /\ pc = "returned" /\ before # <<>>

\* C7: in the plotted sequence the zigzag-region start point and the
\* zigzag-region end point each occur at most once.
C7_SharedEndpointsOnce ==
    ZigPlotted /\ ValidZig =>
        /\ Count(Path, p_zig_start(args)) <= 1
        /\ Count(Path, p_zig_end(args)) <= 1

\* C8: for 0 < fraction_zigzag < 1 and amplitude # 0 the undisplaced
\* zigzag-region end point is a point of the path and the lead-out starts
\* there; likewise the undisplaced zigzag-region start point is a point of
\* the path and the lead-in ends there.  Lying on the line is checked where
\* rounding cannot disturb it (connectors parallel to an axis).
C8_LeadOutFromRegionEnd ==
    ZigPlotted /\ ValidZig /\ args.amplitude # 0
              /\ 0 < args.fraction_zigzag /\ args.fraction_zigzag < One =>
        /\ \E k \in DOMAIN Path :
              /\ Path[k] = p_zig_end(args)
              /\ AxisParallel => \A m \in k..Len(Path) : OnLine(Path[m])
        /\ \E k \in DOMAIN Path :
              /\ Path[k] = p_zig_start(args)
              /\ AxisParallel => \A m \in 1..k : OnLine(Path[m])

\* The number of half-cycles and the sign pattern as the design states them.
C9_n_half == Max(1, Floor(FDiv(L_zig(args), args.pitch)))
C9_s(j) == IF (j \div 2) % 2 = 0 THEN 1 ELSE -1
C9_Example ==
    [start |-> <<0, 0>>, end |-> <<One, 0>>, pitch |-> Dec(25, 100),
     fraction_zigzag |-> Dec(5, 10), amplitude |-> Dec(5, 100)]

\* C9: the zigzag sub-path has n_half + 1 points, n_half = max(1,
\* floor(L_zig / pitch)); a point of even index is its baseline point, a point
\* of odd index j is its baseline point displaced by amplitude * s *
\* (-dy, dx) / L_total with s = +1 for floor(j/2) even and -1 for floor(j/2)
\* odd; the example of the design gives the three points (0.25, 0),
\* (0.5, 0.05), (0.75, 0).
C9_ZigzagSubPath ==
    ZigPlotted =>
        /\ Len(Path) = (C9_n_half + 1) + 2 * (num_straight - 1)
        /\ \A j \in 0..C9_n_half :
              LET pt   == Path[num_straight + j]
                  base == zig_base(args)[j + 1]
                  ux   == FDiv(-dy(args), L_total(args))
                  uy   == FDiv(dx(args), L_total(args))
              IN  IF j % 2 = 0
                  THEN pt = base
                  ELSE pt = << FAdd(base[1], FMul(args.amplitude * C9_s(j), ux)),
                               FAdd(base[2], FMul(args.amplitude * C9_s(j), uy)) >>
        /\ args = C9_Example =>
              SubSeq(Path, num_straight, num_straight + 2)
                  = << <<Dec(25, 100), 0>>, <<Dec(5, 10), Dec(5, 100)>>,
                       <<Dec(75, 100), 0>> >>

C9_Witness ==
    /\ ZigPlotted /\ args.amplitude # 0 /\ C9_n_half >= 3
    /\ Path[num_straight + 1] # Path[num_straight + 3]
    /\ Path[num_straight + 3] # zig_base(args)[4]

(***************************************************************************)
(* Properties of plot_lattice_hex.                                         *)
(***************************************************************************)
LatCalled == fn = "plot_lattice_hex" /\ pc # "idle"

\* The ax.plot calls of this call.
Drawn == SubSeq(ax, Len(before) + 1, Len(ax))

\* C2: a call with angle_start >= angle_end ends in the invalid-range error
\* with no draw call made, whatever r_in, r_out, h, w and d are.
C2_InvalidRangeFirst ==
    LatCalled /\ args.angle_start >= args.angle_end =>
        pc = "raised" /\ err = InvalidRange /\ ax = before

C2_Witness ==
    /\ LatCalled /\ args.angle_start = args.angle_end
    /\ IsNone(args.r_in) /\ IsNone(args.d) /\ args.h = 0 /\ args.w = 0
    /\ pc = "raised" /\ before # <<>>

\* C3: a call that ends in an error has drawn nothing, and a call that
\* returns has drawn every ring completely (two arcs, the struts, two
\* boundary lines).
C3_NoPartialDrawing ==
    LatCalled =>
        /\ pc = "raised" => ax = before
        /\ pc = "returned" => Len(Drawn) = 5 * (Len(r_values) - 1)

\* C4: for r_in < r_out, h > 0 and a valid sector the ring boundary radii
\* start at r_in, increase strictly, never exceed r_out and end at r_out;
\* there are floor((r_out - r_in)/h) rings when h divides r_out - r_in and
\* one more otherwise.
C4_RingRadii ==
    LatCalled /\ ~IsNone(args.r_in) /\ args.angle_start < args.angle_end
              /\ args.h > 0 /\ Val(args.r_in) < args.r_out =>
        LET span == args.r_out - Val(args.r_in)
        IN  /\ r_values # <<>>
            /\ r_values[1] = Val(args.r_in)
            /\ \A k \in 1..(Len(r_values) - 1) : r_values[k] < r_values[k + 1]
            /\ \A k \in DOMAIN r_values : r_values[k] <= args.r_out
            /\ r_values[Len(r_values)] = args.r_out
            /\ Len(r_values) - 1 =
                  IF span % args.h = 0 THEN span \div args.h
                  ELSE span \div args.h + 1

StrutCalls == {k \in DOMAIN ax : ax[k].kind = "struts"}
MidRadius(k) == r_mid(ax[k].r1, ax[k].r2)

\* C10 as stated: of two rings of one call (w > 0), the one of larger mean
\* radius has at most as many struts.
C10_FewerStrutsOutward ==
    LatCalled /\ args.w > 0 =>
        \A p, q \in StrutCalls :
            MidRadius(p) < MidRadius(q) => ax[q].n <= ax[p].n

\* C10 as amended: of two rings of one call (w > 0) whose struts were drawn,
\* the one of larger mean radius has at least as many struts.
C10_MoreStrutsOutward ==
    LatCalled /\ args.w > 0 =>
        \A p, q \in StrutCalls :
            MidRadius(p) < MidRadius(q) => ax[q].n >= ax[p].n

C10_Witness ==
    /\ LatCalled /\ args.w > 0 /\ pc = "returned"
    /\ \E p, q \in StrutCalls :
          MidRadius(p) < MidRadius(q) /\ ax[q].n > ax[p].n
====
